---- MODULE Spec2Model ----
(***************************************************************************)
(* Model of vms/avm/static/static_service.go: BuildGenesis.                *)
(*                                                                         *)
(* A caller assembles BuildGenesisArgs, invokes BuildGenesis, and then     *)
(* invokes it a second time on the same arguments (records inside the      *)
(* initialState lists possibly permuted).  The two Go maps that            *)
(* BuildGenesis ranges over are visited in an arbitrary order.             *)
(***************************************************************************)
EXTENDS Integers, Sequences, FiniteSets, TLC

VARIABLES
  genesisData,  \* args.GenesisData: alias -> asset definition
  encoding,     \* args.Encoding
  entry,        \* the reply object as the caller passed it
  inv,          \* number of the invocation under way (0 before the first)
  pc,           \* "build", "loop", "done", "between"
  remaining,    \* aliases the range over args.GenesisData has not visited yet
  visited,      \* aliases in the order the range visited them
  g,            \* g.Txs
  reply,        \* the reply object
  err,          \* the error returned
  first         \* outcome of the first invocation

vars == <<genesisData, encoding, entry, inv, pc, remaining, visited, g, reply, err, first>>

(* ------------------------------ bounds --------------------------------- *)
\* keys, records and minters of all initialState maps together (Spec)
MaxItems == 3
\* minters of all records together (SpecOwners)
MaxOwners == 3

(* --------------------------- program constants -------------------------- *)
codecVersion == 0
ShortIDLen == 20
IDLen == 32
FxID == 0
Threshold == 1

(* type IDs handed out by c.RegisterType in registration order *)
RegisteredTypes ==
  <<"BaseTx", "CreateAssetTx", "OperationTx", "ImportTx", "ExportTx",
    "TransferInput", "MintOutput", "TransferOutput", "MintOperation",
    "Credential">>

TypeID(name) == (CHOOSE i \in 1..Len(RegisteredTypes) : RegisteredTypes[i] = name) - 1

(* ------------------------------ byte strings ---------------------------- *)
Min(a, b) == IF a < b THEN a ELSE b

Zeros(n) == [i \in 1..n |-> 0]

\* bytes.Compare(a, b) < 0
BytesLess(a, b) ==
  \/ \E i \in 1..Min(Len(a), Len(b)) :
        /\ a[i] < b[i]
        /\ \A j \in 1..(i - 1) : a[j] = b[j]
  \/ /\ Len(a) < Len(b)
     /\ \A j \in 1..Len(a) : a[j] = b[j]

RECURSIVE Flatten(_)
Flatten(ss) == IF ss = <<>> THEN <<>> ELSE Head(ss) \o Flatten(Tail(ss))

\* insert x into the sequence s of [k, v] pairs that is ascending in k
RECURSIVE InsertByKey(_, _)
InsertByKey(s, x) ==
  IF s = <<>> THEN <<x>>
  ELSE IF BytesLess(x.k, Head(s).k) THEN <<x>> \o s
  ELSE <<Head(s)>> \o InsertByKey(Tail(s), x)

RECURSIVE SortPairs(_)
SortPairs(s) ==
  IF s = <<>> THEN <<>>
  ELSE InsertByKey(SortPairs(SubSeq(s, 1, Len(s) - 1)), s[Len(s)])

Values(ps) == [i \in 1..Len(ps) |-> ps[i].v]

(* ------------------------------- codec ---------------------------------- *)
U8(n) == <<n % 256>>
U16(n) == <<(n \div 256) % 256, n % 256>>
U32(n) == <<(n \div 16777216) % 256, (n \div 65536) % 256, (n \div 256) % 256, n % 256>>
\* amounts of the model stay below 2^31, so the high word is zero
U64(n) == Zeros(4) \o U32(n)

PackStr(s) == U16(Len(s)) \o s
PackBytes(b) == U32(Len(b)) \o b

PackOwners(o) ==
  U64(o.Locktime) \o U32(o.Threshold) \o U32(Len(o.Addrs)) \o Flatten(o.Addrs)

\* an output marshalled through the verify.State interface: type ID, then fields
PackOutput(out) ==
  IF out.type = "TransferOutput"
  THEN U32(TypeID("TransferOutput")) \o U64(out.Amt) \o PackOwners(out)
  ELSE U32(TypeID("MintOutput")) \o PackOwners(out)

PackInitialState(st) ==
  U32(st.FxID) \o U32(Len(st.Outs))
    \o Flatten([i \in 1..Len(st.Outs) |-> PackOutput(st.Outs[i])])

PackGenesisAsset(a) ==
  PackStr(a.Alias)
    \o U32(a.NetworkID) \o a.BlockchainID \o U32(0) \o U32(0) \o PackBytes(a.Memo)
    \o PackStr(a.Name) \o PackStr(a.Symbol) \o U8(a.Denomination)
    \o U32(Len(a.States))
    \o Flatten([i \in 1..Len(a.States) |-> PackInitialState(a.States[i])])

PackGenesis(txs) ==
  U32(Len(txs)) \o Flatten([i \in 1..Len(txs) |-> PackGenesisAsset(txs[i])])

\* manager.Marshal(version, v): version prefix, then the value
Marshal(version, body) == U16(version) \o body

(* --------------------------- text formatting ---------------------------- *)
\* Text is a sequence of characters; a hex digit is the character 0..15,
\* anything larger is a character outside the hex alphabet.
Checksum(b) == <<(IF b = <<>> THEN 0 ELSE Len(b) + b[1] + b[Len(b)]) % 256>>

HexOf(b) ==
  [i \in 1..(2 * Len(b)) |->
     IF i % 2 = 1 THEN b[(i + 1) \div 2] \div 16 ELSE b[i \div 2] % 16]

UnHex(t) == [i \in 1..(Len(t) \div 2) |-> 16 * t[2 * i - 1] + t[2 * i]]

ValidEncoding(enc) == enc \in {"hex"}

\* formatting.Encode
Encode(enc, b) ==
  IF ~ValidEncoding(enc) THEN [err |-> TRUE, str |-> <<>>]
  ELSE [err |-> FALSE, str |-> HexOf(b \o Checksum(b))]

\* formatting.Decode
Decode(enc, t) ==
  IF ~ValidEncoding(enc) THEN [err |-> TRUE, bytes |-> <<>>]
  ELSE IF t = <<>> THEN [err |-> FALSE, bytes |-> <<>>]
  ELSE IF Len(t) % 2 # 0 \/ (\E i \in 1..Len(t) : t[i] > 15)
    THEN [err |-> TRUE, bytes |-> <<>>]
  ELSE LET raw == UnHex(t)
           body == SubSeq(raw, 1, Len(raw) - 1)
       IN IF Len(raw) < 1 \/ <<raw[Len(raw)]>> # Checksum(body)
          THEN [err |-> TRUE, bytes |-> <<>>]
          ELSE [err |-> FALSE, bytes |-> body]

(* ------------------------------ addresses ------------------------------- *)
PadID(k) == [i \in 1..ShortIDLen |-> IF i = ShortIDLen THEN k ELSE 0]

\* formatting.ParseBech32: the decoded payload of the address text
ParseBech32(text) ==
  CASE text = "addrA" -> [err |-> FALSE, buf |-> PadID(1)]
    [] text = "addrB" -> [err |-> FALSE, buf |-> PadID(2)]
    [] text = "addrC" -> [err |-> FALSE, buf |-> PadID(3)]
    [] text = "short" -> [err |-> FALSE, buf |-> Zeros(ShortIDLen - 1)]
    [] OTHER -> [err |-> TRUE, buf |-> <<>>]

\* ids.ToShortID
ToShortID(buf) ==
  IF Len(buf) # ShortIDLen THEN [err |-> TRUE, id |-> <<>>]
  ELSE [err |-> FALSE, id |-> buf]

(* --------------------- loosely typed distribution records --------------- *)
\* A record of an initialState list is a JSON object; the model keeps its
\* "address", "amount" and "minters" members.  An absent string member is "",
\* an absent array member is <<>>, and JsonNumber stands for a member (or an
\* array element) that is a JSON number where a string is expected.
JsonNumber == "<number>"

\* json.Marshal(state) followed by json.Unmarshal(b, &holder); marshalling a
\* value that came out of JSON does not fail
UnmarshalHolder(state) ==
  IF state.address = JsonNumber
  THEN [err |-> TRUE, Address |-> "", Amount |-> 0]
  ELSE [err |-> FALSE, Address |-> state.address, Amount |-> state.amount]

\* json.Marshal(state) followed by json.Unmarshal(b, &owners)
UnmarshalOwners(state) ==
  IF \E i \in 1..Len(state.minters) : state.minters[i] = JsonNumber
  THEN [err |-> TRUE, Minters |-> <<>>]
  ELSE [err |-> FALSE, Minters |-> state.minters]

(* ------------------------------- sorting -------------------------------- *)
\* ids.SortShortIDs, reached through OutputOwners.Sort
SortShortIDs(addrs) ==
  Values(SortPairs([i \in 1..Len(addrs) |-> [k |-> addrs[i], v |-> addrs[i]]]))

\* InitialState.Sort(manager): outputs ascending by their marshalled bytes
InitialStateSort(st) ==
  [st EXCEPT !.Outs =
     Values(SortPairs([i \in 1..Len(st.Outs) |->
        [k |-> Marshal(codecVersion, PackOutput(st.Outs[i])), v |-> st.Outs[i]]]))]

\* CreateAssetTx.Sort: initial states ascending by FxID
AssetSort(asset) ==
  [asset EXCEPT !.States =
     Values(SortPairs([i \in 1..Len(asset.States) |->
        [k |-> U32(asset.States[i].FxID), v |-> asset.States[i]]]))]

\* Genesis.Sort: transactions ascending by their marshalled bytes
GenesisSort(txs) ==
  Values(SortPairs([i \in 1..Len(txs) |->
     [k |-> Marshal(codecVersion, PackGenesisAsset(txs[i])), v |-> txs[i]]]))

(* ------------------------ BuildGenesis, loop body ----------------------- *)
NoError == "nil"

ResolveAddress(text) ==
  LET p == ParseBech32(text)
  IN IF p.err THEN [err |-> TRUE, id |-> <<>>] ELSE ToShortID(p.buf)

TransferOutput(amt, addr) ==
  [type |-> "TransferOutput", Amt |-> amt, Locktime |-> 0,
   Threshold |-> Threshold, Addrs |-> <<addr>>]

\* AppendOut assigning instead of appending
AppendOut_Overwrite(outs, out) == <<out>>

AppendOut(outs, out) == Append(outs, out)

\* HolderOut skipping a holder whose address does not resolve
HolderOut_SkipBadAddress(outs, holder) ==
  LET r == ResolveAddress(holder.Address)
  IN IF r.err THEN [err |-> NoError, outs |-> outs]
     ELSE [err |-> NoError, outs |-> AppendOut(outs, TransferOutput(holder.Amount, r.id))]

\* lines 84-98: resolve the holder's address and append the TransferOutput
HolderOut(outs, holder) ==
  LET r == ResolveAddress(holder.Address)
  IN IF r.err THEN [err |-> "holderAddress", outs |-> outs]
     ELSE [err |-> NoError, outs |-> AppendOut(outs, TransferOutput(holder.Amount, r.id))]

RECURSIVE FixedCapOuts(_, _)
FixedCapOuts(outs, states) ==
  IF states = <<>> THEN [err |-> NoError, outs |-> outs]
  ELSE LET holder == UnmarshalHolder(Head(states))
       IN IF holder.err THEN [err |-> "unmarshalHolder", outs |-> outs]
          ELSE LET h == HolderOut(outs, holder)
               IN IF h.err # NoError THEN h
                  ELSE FixedCapOuts(h.outs, Tail(states))

\* lines 116-126: resolve the minters in declaration order
RECURSIVE MinterAddrs(_, _)
MinterAddrs(addrs, minters) ==
  IF minters = <<>> THEN [err |-> NoError, addrs |-> addrs]
  ELSE LET r == ResolveAddress(Head(minters))
       IN IF r.err THEN [err |-> "mintersAddress", addrs |-> addrs]
          ELSE MinterAddrs(Append(addrs, r.id), Tail(minters))

\* MintOutputOf without the call of out.Sort()
MintOutputOf_Unsorted(addrs) ==
  [type |-> "MintOutput", Amt |-> 0, Locktime |-> 0, Threshold |-> Threshold,
   Addrs |-> addrs]

\* lines 111-127: the MintOutput over the resolved addresses, after out.Sort()
MintOutputOf(addrs) ==
  [type |-> "MintOutput", Amt |-> 0, Locktime |-> 0, Threshold |-> Threshold,
   Addrs |-> SortShortIDs(addrs)]

RECURSIVE VariableCapOuts(_, _)
VariableCapOuts(outs, states) ==
  IF states = <<>> THEN [err |-> NoError, outs |-> outs]
  ELSE LET owners == UnmarshalOwners(Head(states))
       IN IF owners.err THEN [err |-> "unmarshalOwners", outs |-> outs]
          ELSE LET m == MinterAddrs(<<>>, owners.Minters)
               IN IF m.err # NoError THEN [err |-> m.err, outs |-> outs]
                  ELSE VariableCapOuts(AppendOut(outs, MintOutputOf(m.addrs)), Tail(states))

\* UnknownTag skipping the key instead of returning
UnknownTag_Skipped(outs) == [err |-> NoError, outs |-> outs]

\* lines 131-132
UnknownTag(outs) == [err |-> "unknownAssetType", outs |-> outs]

\* lines 72-134: the range over assetDefinition.InitialState, visited in [order]
RECURSIVE InitialStateOuts(_, _, _)
InitialStateOuts(outs, initialStates, order) ==
  IF order = <<>> THEN [err |-> NoError, outs |-> outs]
  ELSE LET assetType == Head(order)
           r == CASE assetType = "fixedCap" -> FixedCapOuts(outs, initialStates[assetType])
                  [] assetType = "variableCap" -> VariableCapOuts(outs, initialStates[assetType])
                  [] OTHER -> UnknownTag(outs)
       IN IF r.err # NoError THEN r
          ELSE InitialStateOuts(r.outs, initialStates, Tail(order))

\* HasInitialState without the length test
HasInitialState_Always(assetDefinition) == TRUE

\* line 68
HasInitialState(assetDefinition) == Cardinality(DOMAIN assetDefinition.InitialState) > 0

\* NewInitialState without the call of initialState.Sort(manager)
NewInitialState_Unsorted(outs) == [FxID |-> FxID, Outs |-> outs]

\* lines 69-71 and 135
NewInitialState(outs) == InitialStateSort([FxID |-> FxID, Outs |-> outs])

\* lines 50-139: one iteration of the range over args.GenesisData; the
\* network ID of the model is below 2^32, where uint32() changes nothing
BuildAsset(assetAlias, assetDefinition, order, enc, networkID) ==
  LET assetMemo == Decode(enc, assetDefinition.Memo)
      asset == [Alias |-> assetAlias,
                NetworkID |-> networkID,
                BlockchainID |-> Zeros(IDLen),
                Memo |-> assetMemo.bytes,
                Name |-> assetDefinition.Name,
                Symbol |-> assetDefinition.Symbol,
                Denomination |-> assetDefinition.Denomination % 256,
                States |-> <<>>]
  IN IF assetMemo.err THEN [err |-> "memo", asset |-> asset]
     ELSE IF HasInitialState(assetDefinition)
     THEN LET r == InitialStateOuts(<<>>, assetDefinition.InitialState, order)
          IN IF r.err # NoError THEN [err |-> r.err, asset |-> asset]
             ELSE [err |-> NoError,
                   asset |-> AssetSort([asset EXCEPT !.States = <<NewInitialState(r.outs)>>])]
     ELSE [err |-> NoError, asset |-> AssetSort(asset)]

\* GenesisTxs without the call of g.Sort()
GenesisTxs_Unsorted(txs) == txs

\* line 141
GenesisTxs(txs) == GenesisSort(txs)

\* the iteration orders a Go map over the keys [keys] can take
IterationOrders(keys) ==
  {o \in [1..Cardinality(keys) -> keys] : \A i, j \in 1..Cardinality(keys) : o[i] = o[j] => i = j}

(* ------------------------------ the caller ------------------------------ *)
Aliases == {<<98>>, <<97, 97>>}
Tags == {"fixedCap", "variableCap", "unknown"}
NetworkID == 1
AssetName == <<78>>
AssetSymbol == <<83>>
GoodMemo == Encode("hex", <<7>>).str
BadMemo == <<0, 16>>
Memos == {GoodMemo, BadMemo}
HolderAddresses == {"addrA", "addrC", "badchk", "short", JsonNumber}
MinterAddresses == {"addrA", "addrB", "addrC", "badchk"}
Encodings == {"hex", "bogus"}
ZeroReply == [Bytes |-> <<>>, Encoding |-> ""]
UsedReply == [Bytes |-> Encode("hex", <<1>>).str, Encoding |-> "hex"]
EntryReplies == {ZeroReply, UsedReply}

EmptyMap == [x \in {} |-> {}]

RECURSIVE SumSeq(_)
SumSeq(s) == IF s = <<>> THEN 0 ELSE Head(s) + SumSeq(Tail(s))

RECURSIVE SumOver(_, _)
SumOver(S, f) ==
  IF S = {} THEN 0
  ELSE LET x == CHOOSE y \in S : TRUE IN f[x] + SumOver(S \ {x}, f)

\* number of records in an initialState map
RecordsOf(is) == SumOver(DOMAIN is, [t \in DOMAIN is |-> Len(is[t])])

MintersOf(is) ==
  SumOver(DOMAIN is,
    [t \in DOMAIN is |-> SumSeq([i \in 1..Len(is[t]) |-> Len(is[t][i].minters)])])

TotalTags(gd) == SumOver(DOMAIN gd, [a \in DOMAIN gd |-> Cardinality(DOMAIN gd[a].InitialState)])
TotalRecords(gd) == SumOver(DOMAIN gd, [a \in DOMAIN gd |-> RecordsOf(gd[a].InitialState)])
TotalMinters(gd) == SumOver(DOMAIN gd, [a \in DOMAIN gd |-> MintersOf(gd[a].InitialState)])
TotalItems(gd) == TotalTags(gd) + TotalRecords(gd) + TotalMinters(gd)

Init ==
  /\ genesisData = EmptyMap
  /\ encoding = "hex"
  /\ entry = ZeroReply
  /\ inv = 0
  /\ pc = "build"
  /\ remaining = {}
  /\ visited = <<>>
  /\ g = <<>>
  /\ reply = ZeroReply
  /\ err = NoError
  /\ first = [done |-> FALSE, err |-> NoError, reply |-> ZeroReply, g |-> <<>>, gd |-> EmptyMap]

AddAsset(a, memo) ==
  /\ pc = "build"
  /\ a \notin DOMAIN genesisData
  /\ genesisData' = genesisData @@ (a :> [Memo |-> memo, Name |-> AssetName,
                                          Symbol |-> AssetSymbol, Denomination |-> 0,
                                          InitialState |-> EmptyMap])
  /\ UNCHANGED <<encoding, entry, inv, pc, remaining, visited, g, reply, err, first>>

AddTag(a, t, used, max) ==
  /\ pc = "build"
  /\ a \in DOMAIN genesisData
  /\ t \notin DOMAIN genesisData[a].InitialState
  /\ used < max
  /\ genesisData' = [genesisData EXCEPT ![a].InitialState = @ @@ (t :> <<>>)]
  /\ UNCHANGED <<encoding, entry, inv, pc, remaining, visited, g, reply, err, first>>

\* a record with members "address" and "amount", or with a "minters" array
\* that is empty or holds a number
HolderRecords == {[address |-> x, amount |-> 1, minters |-> <<>>] : x \in HolderAddresses}
OwnersRecords == {[address |-> "", amount |-> 0, minters |-> m] : m \in {<<>>, <<JsonNumber>>}}

AddRecord(a, t, rec, used, max) ==
  /\ pc = "build"
  /\ a \in DOMAIN genesisData
  /\ t \in DOMAIN genesisData[a].InitialState
  /\ \/ t = "fixedCap" /\ rec \in HolderRecords
     \/ t = "variableCap" /\ rec \in OwnersRecords
  /\ used < max
  /\ genesisData' = [genesisData EXCEPT ![a].InitialState[t] = Append(@, rec)]
  /\ UNCHANGED <<encoding, entry, inv, pc, remaining, visited, g, reply, err, first>>

AddMinter(a, m, used, max) ==
  /\ pc = "build"
  /\ a \in DOMAIN genesisData
  /\ "variableCap" \in DOMAIN genesisData[a].InitialState
  /\ genesisData[a].InitialState["variableCap"] # <<>>
  /\ LET states == genesisData[a].InitialState["variableCap"]
     IN JsonNumber \notin {states[Len(states)].minters[i] :
                             i \in 1..Len(states[Len(states)].minters)}
  /\ used < max
  /\ genesisData' = [genesisData EXCEPT ![a].InitialState["variableCap"] =
                       [@ EXCEPT ![Len(@)].minters = Append(@, m)]]
  /\ UNCHANGED <<encoding, entry, inv, pc, remaining, visited, g, reply, err, first>>

\* lines 27-48: entry, codec registration, empty Genesis.  The ten types are
\* distinct and the codec is fresh, so errs.Errored() is false.
Call(enc, r) ==
  /\ pc = "build"
  /\ encoding' = enc
  /\ entry' = r
  /\ reply' = r
  /\ inv' = 1
  /\ pc' = "loop"
  /\ remaining' = DOMAIN genesisData
  /\ visited' = <<>>
  /\ g' = <<>>
  /\ err' = NoError
  /\ UNCHANGED <<genesisData, first>>

\* lines 49-140, an iteration that completes
IterateAsset(a, order) ==
  /\ pc = "loop"
  /\ a \in remaining
  /\ LET r == BuildAsset(a, genesisData[a], order, encoding, NetworkID)
     IN /\ r.err = NoError
        /\ g' = Append(g, r.asset)
  /\ remaining' = remaining \ {a}
  /\ visited' = Append(visited, a)
  /\ UNCHANGED <<genesisData, encoding, entry, inv, pc, reply, err, first>>

\* lines 49-140, an iteration that returns an error
IterateAssetFail(a, order) ==
  /\ pc = "loop"
  /\ a \in remaining
  /\ LET r == BuildAsset(a, genesisData[a], order, encoding, NetworkID)
     IN /\ r.err # NoError
        /\ err' = r.err
  /\ pc' = "done"
  /\ UNCHANGED <<genesisData, encoding, entry, inv, remaining, visited, g, reply, first>>

\* lines 141-153, the text encoding succeeds.  manager.Marshal fails only on
\* strings and slices beyond the codec's limits, which no genesis of the
\* model reaches.
Finish ==
  /\ pc = "loop"
  /\ remaining = {}
  /\ LET txs == GenesisTxs(g)
         b == Marshal(codecVersion, PackGenesis(txs))
         e == Encode(encoding, b)
     IN /\ ~e.err
        /\ g' = txs
        /\ reply' = [Bytes |-> e.str, Encoding |-> encoding]
  /\ err' = NoError
  /\ pc' = "done"
  /\ UNCHANGED <<genesisData, encoding, entry, inv, remaining, visited, first>>

\* lines 141-151, the text encoding fails
FinishEncodeFail ==
  /\ pc = "loop"
  /\ remaining = {}
  /\ LET txs == GenesisTxs(g)
         b == Marshal(codecVersion, PackGenesis(txs))
         e == Encode(encoding, b)
     IN /\ e.err
        /\ g' = txs
        /\ reply' = [reply EXCEPT !.Bytes = e.str]
  /\ err' = "encode"
  /\ pc' = "done"
  /\ UNCHANGED <<genesisData, encoding, entry, inv, remaining, visited, first>>

\* the caller keeps the outcome of the first invocation
Return ==
  /\ pc = "done"
  /\ inv = 1
  /\ first' = [done |-> TRUE, err |-> err, reply |-> reply, g |-> g, gd |-> genesisData]
  /\ pc' = "between"
  /\ visited' = <<>>
  /\ g' = <<>>
  /\ reply' = entry
  /\ err' = NoError
  /\ UNCHANGED <<genesisData, encoding, entry, inv, remaining>>

\* the caller swaps two neighbouring records of one initialState list
PermuteRecords(a, t, i) ==
  /\ pc = "between"
  /\ a \in DOMAIN genesisData
  /\ t \in DOMAIN genesisData[a].InitialState
  /\ i \in 1..(Len(genesisData[a].InitialState[t]) - 1)
  /\ genesisData[a].InitialState[t][i] # genesisData[a].InitialState[t][i + 1]
  /\ LET states == genesisData[a].InitialState[t]
     IN genesisData' = [genesisData EXCEPT ![a].InitialState[t] =
                          [states EXCEPT ![i] = states[i + 1], ![i + 1] = states[i]]]
  /\ UNCHANGED <<encoding, entry, inv, pc, remaining, visited, g, reply, err, first>>

\* the second invocation, on the same arguments and an equal reply object
CallAgain ==
  /\ pc = "between"
  /\ inv' = 2
  /\ pc' = "loop"
  /\ reply' = entry
  /\ remaining' = DOMAIN genesisData
  /\ visited' = <<>>
  /\ g' = <<>>
  /\ err' = NoError
  /\ UNCHANGED <<genesisData, encoding, entry, first>>

Next ==
  \/ \E a \in Aliases, memo \in Memos : AddAsset(a, memo)
  \/ \E a \in Aliases, t \in Tags : AddTag(a, t, TotalItems(genesisData), MaxItems)
  \/ \E a \in Aliases, t \in Tags, rec \in HolderRecords \cup OwnersRecords :
        AddRecord(a, t, rec, TotalItems(genesisData), MaxItems)
  \/ \E a \in Aliases, m \in MinterAddresses :
        AddMinter(a, m, TotalItems(genesisData), MaxItems)
  \/ \E enc \in Encodings, r \in EntryReplies : Call(enc, r)
  \/ \E a \in remaining : \E order \in IterationOrders(DOMAIN genesisData[a].InitialState) :
        IterateAsset(a, order)
  \/ \E a \in remaining : \E order \in IterationOrders(DOMAIN genesisData[a].InitialState) :
        IterateAssetFail(a, order)
  \/ Finish
  \/ FinishEncodeFail
  \/ Return
  \/ \E a \in Aliases, t \in Tags, i \in 1..MaxItems : PermuteRecords(a, t, i)
  \/ CallAgain

Spec == Init /\ [][Next]_vars

\* One asset whose only initialState key is "variableCap", with longer minter
\* lists than Next builds.
OwnersAlias == <<98>>
OwnersRecordsMax == MaxOwners - 1

NextOwners ==
  \/ AddAsset(OwnersAlias, GoodMemo)
  \/ AddTag(OwnersAlias, "variableCap", 0, 1)
  \/ \E rec \in OwnersRecords :
        AddRecord(OwnersAlias, "variableCap", rec, TotalRecords(genesisData), OwnersRecordsMax)
  \/ \E m \in MinterAddresses :
        AddMinter(OwnersAlias, m, TotalMinters(genesisData), MaxOwners)
  \/ \E enc \in Encodings, r \in EntryReplies : Call(enc, r)
  \/ \E a \in remaining : \E order \in IterationOrders(DOMAIN genesisData[a].InitialState) :
        IterateAsset(a, order)
  \/ \E a \in remaining : \E order \in IterationOrders(DOMAIN genesisData[a].InitialState) :
        IterateAssetFail(a, order)
  \/ Finish
  \/ FinishEncodeFail
  \/ Return
  \/ \E i \in 1..OwnersRecordsMax : PermuteRecords(OwnersAlias, "variableCap", i)
  \/ CallAgain

SpecOwners == Init /\ [][NextOwners]_vars

(* ------------------------ vocabulary of the claims ---------------------- *)
Succeeded == pc = "done" /\ err = NoError
Failed == pc = "done" /\ err # NoError

KnownTags == {"fixedCap", "variableCap"}
AddressFormatErrors == {"holderAddress", "mintersAddress"}

Elems(s) == {s[i] : i \in 1..Len(s)}

ListOf(def, t) == IF t \in DOMAIN def.InitialState THEN def.InitialState[t] ELSE <<>>

\* the kinds of defect present in one asset definition
AssetDefects(def, enc) ==
  (IF Decode(enc, def.Memo).err THEN {"memo"} ELSE {})
  \cup (IF DOMAIN def.InitialState \ KnownTags # {} THEN {"unknownAssetType"} ELSE {})
  \cup (IF \E rec \in Elems(ListOf(def, "fixedCap")) : rec.address = JsonNumber
        THEN {"unmarshalHolder"} ELSE {})
  \cup (IF \E rec \in Elems(ListOf(def, "fixedCap")) :
             rec.address # JsonNumber /\ ResolveAddress(rec.address).err
        THEN {"holderAddress"} ELSE {})
  \cup (IF \E rec \in Elems(ListOf(def, "variableCap")) : JsonNumber \in Elems(rec.minters)
        THEN {"unmarshalOwners"} ELSE {})
  \cup (IF \E rec \in Elems(ListOf(def, "variableCap")) :
             /\ JsonNumber \notin Elems(rec.minters)
             /\ \E m \in Elems(rec.minters) : ResolveAddress(m).err
        THEN {"mintersAddress"} ELSE {})

\* the kinds of defect present in the arguments
Defects(gd, enc) ==
  UNION {AssetDefects(gd[a], enc) : a \in DOMAIN gd}
    \cup (IF ValidEncoding(enc) THEN {} ELSE {"encode"})

TxBytes(tx) == Marshal(codecVersion, PackGenesisAsset(tx))

\* all outputs of a transaction
OutputsOf(tx) == UNION {Elems(tx.States[i].Outs) : i \in 1..Len(tx.States)}

CountType(outs, type) == Cardinality({i \in 1..Len(outs) : outs[i].type = type})

Occurrences(s, x) == Cardinality({i \in 1..Len(s) : s[i] = x})

SameMembers(s, t) ==
  /\ Len(s) = Len(t)
  /\ \A x \in Elems(s) \cup Elems(t) : Occurrences(s, x) = Occurrences(t, x)

Ascending(addrs) == \A i, j \in 1..Len(addrs) : i < j => ~BytesLess(addrs[j], addrs[i])

Resolved(minters) == [i \in 1..Len(minters) |-> ResolveAddress(minters[i]).id]

(* -------------------------------- claims -------------------------------- *)

C2_TxsAscending ==
  Succeeded =>
    \A i, j \in 1..Len(g) : i < j => BytesLess(TxBytes(g[i]), TxBytes(g[j]))

\* two assets were appended in descending order of their encodings
C2_Witness ==
  /\ Succeeded
  /\ Len(g) = 2
  /\ visited[1] = g[2].Alias
  /\ BytesLess(TxBytes(g[1]), TxBytes(g[2]))

\* C3 as stated: an initialState key other than "fixedCap" and "variableCap"
\* makes BuildGenesis return the unknown-asset-type error and no bytes.
C3_Original ==
  (pc = "done" /\ "unknownAssetType" \in Defects(genesisData, encoding))
    => (err = "unknownAssetType" /\ reply = entry)

\* C3 amended: such a key makes BuildGenesis return an error and no bytes, and
\* the error is the unknown-asset-type error when the arguments have no defect
\* of another kind.
C3_UnknownTagRejected ==
  (pc = "done" /\ "unknownAssetType" \in Defects(genesisData, encoding))
    => /\ err # NoError
       /\ reply = entry
       /\ Defects(genesisData, encoding) = {"unknownAssetType"} => err = "unknownAssetType"

\* the unknown tag was rejected although the asset also has valid records
C3_Witness ==
  /\ Failed /\ err = "unknownAssetType"
  /\ reply = entry
  /\ \E a \in DOMAIN genesisData :
        /\ "unknown" \in DOMAIN genesisData[a].InitialState
        /\ ListOf(genesisData[a], "fixedCap") # <<>>

\* C4 as stated: a fixedCap holder address that fails resolution makes
\* BuildGenesis return an address-format error and no bytes.
C4_Original ==
  (pc = "done" /\ "holderAddress" \in Defects(genesisData, encoding))
    => (err \in AddressFormatErrors /\ reply = entry)

\* C4 amended: such an address makes BuildGenesis return an error and no
\* bytes, for every iteration order, and the error is an address-format error
\* when the arguments have no defect of another kind.
C4_BadHolderAddressRejected ==
  (pc = "done" /\ "holderAddress" \in Defects(genesisData, encoding))
    => /\ err # NoError
       /\ reply = entry
       /\ Defects(genesisData, encoding) \subseteq AddressFormatErrors
            => err \in AddressFormatErrors

\* a holder address of the wrong length aborted a build whose other asset,
\* free of defects and with an initialState key, had already been appended
C4_Witness ==
  /\ Failed /\ err = "holderAddress"
  /\ reply = entry
  /\ \E a \in DOMAIN genesisData :
        \E rec \in Elems(ListOf(genesisData[a], "fixedCap")) : rec.address = "short"
  /\ Len(visited) = 1
  /\ AssetDefects(genesisData[visited[1]], encoding) = {}
  /\ DOMAIN genesisData[visited[1]].InitialState # {}

\* C5: whenever BuildGenesis returns an error, the reply object is as it was
\* on entry.
C5_ReplyUntouchedOnError ==
  Failed => reply = entry

\* C6: an asset with no initialState entries yields a transaction with no
\* InitialStateGroup, it does not keep the build from succeeding, and the
\* returned bytes encode the genesis that holds this transaction.
C6_EmptyInitialState ==
  (pc = "done" /\ \E a \in DOMAIN genesisData : DOMAIN genesisData[a].InitialState = {})
    => /\ Defects(genesisData, encoding) = {} => err = NoError
       /\ err = NoError =>
            /\ \A a \in DOMAIN genesisData :
                 DOMAIN genesisData[a].InitialState = {}
                   => \E i \in 1..Len(g) : g[i].Alias = a /\ g[i].States = <<>>
            /\ reply.Bytes = Encode(encoding, Marshal(codecVersion, PackGenesis(g))).str
            /\ reply.Bytes # <<>>

\* a build over an asset without initial state and an asset with a group
C6_Witness ==
  /\ Succeeded
  /\ \E i, j \in 1..Len(g) :
        /\ DOMAIN genesisData[g[i].Alias].InitialState = {}
        /\ g[i].States = <<>>
        /\ Len(g[j].States) = 1

\* C7: every variableCap record has a MintOutput in the group whose owner list
\* is the record's resolved minters in ascending binary order.
C7_MintersSorted ==
  Succeeded =>
    \A i \in 1..Len(g) :
      \A rec \in Elems(ListOf(genesisData[g[i].Alias], "variableCap")) :
        \E out \in OutputsOf(g[i]) :
          /\ out.type = "MintOutput"
          /\ SameMembers(out.Addrs, Resolved(rec.minters))
          /\ Ascending(out.Addrs)

\* minters declared [B, A, C] came out as [A, B, C]
C7_Witness ==
  /\ Succeeded
  /\ \E i \in 1..Len(g) :
        /\ \E rec \in Elems(ListOf(genesisData[g[i].Alias], "variableCap")) :
              rec.minters = <<"addrB", "addrA", "addrC">>
        /\ \E out \in OutputsOf(g[i]) : out.Addrs = <<PadID(1), PadID(2), PadID(3)>>

\* C8: every output of a successfully encoded genesis has at least one owner.
C8_OwnersNonEmpty ==
  Succeeded => \A i \in 1..Len(g) : \A out \in OutputsOf(g[i]) : Len(out.Addrs) > 0

\* C9: on success an asset with a non-empty initialState map has exactly one
\* group, with formatID 0, holding one output per distribution record.
C9_OneGroupOneOutputPerRecord ==
  Succeeded =>
    \A i \in 1..Len(g) :
      LET is == genesisData[g[i].Alias].InitialState
      IN DOMAIN is # {} =>
           /\ Len(g[i].States) = 1
           /\ g[i].States[1].FxID = 0
           /\ Len(g[i].States[1].Outs) = RecordsOf(is)
           /\ CountType(g[i].States[1].Outs, "TransferOutput")
                = Len(ListOf(genesisData[g[i].Alias], "fixedCap"))
           /\ CountType(g[i].States[1].Outs, "MintOutput")
                = Len(ListOf(genesisData[g[i].Alias], "variableCap"))

\* two equal fixedCap records gave two outputs in the one group
C9_Witness ==
  /\ Succeeded
  /\ \E i \in 1..Len(g) :
        /\ Len(ListOf(genesisData[g[i].Alias], "fixedCap")) = 2
        /\ Cardinality(Elems(ListOf(genesisData[g[i].Alias], "fixedCap"))) = 1
        /\ Len(g[i].States) = 1
        /\ Len(g[i].States[1].Outs) = 2

\* C10: for arguments with defects of two different kinds, every invocation
\* returns the same error kind.
C10_SameErrorEveryInvocation ==
  (inv = 2 /\ pc = "done" /\ first.done /\ first.gd = genesisData
     /\ Cardinality(Defects(genesisData, encoding)) >= 2)
    => err = first.err

====
